---- MODULE Spec2Model ----
(***************************************************************************)
(* A state-machine model of src/BigCode.cpp: main() of the console trivia  *)
(* program.  The state is main's locals, the console input still unread,   *)
(* the content of triviaquestions.txt on disk and the process' exit.       *)
(* Characters are 7-bit ASCII codes; a string is a sequence of codes.  A   *)
(* line of the questions file is a sequence of words.                      *)
(***************************************************************************)
EXTENDS Integers, Sequences, FiniteSets, TLC

VARIABLES
    pc,                \* main's position
    console,           \* std::cin: the input lines not yet reached, one token each
    midLine,           \* std::cin stands after a token, before its line's newline
    name,              \* string name                       (line 337)
    cout,              \* the messages written to std::cout
    cerr,              \* the messages written to stderr
    srcLines,          \* triviaquestions.txt on disk: its lines
    srcNL,             \* triviaquestions.txt is empty or ends in a newline
    srcLines0,         \* the lines triviaquestions.txt held when main started
    srcNL0,            \* srcNL when main started
    questionFile,      \* ifstream questionFile             (line 379)
    pos,               \* lines of questionFile consumed by getline
    questions,         \* vector<Question> questions        (line 398)
    line,              \* string line                       (line 401)
    maxQuestions,      \* const int maxQuestions            (line 406)
    questionCount,     \* unsigned int questionCount        (line 408)
    questionCountInt,  \* int questionCountInt              (line 409)
    heap,              \* the Questions made by new(nothrow) and not deleted
    questionFileOut,   \* ofstream questionFileOut          (line 461)
    outputFile,        \* FILE *outputFile                  (line 474)
    i,                 \* the sample-question loop's index  (line 545)
    userChoice,        \* int userChoice                    (line 557)
    optionsUsed,       \* the indices the last pass used for options[...]
    exitHow,           \* how the process ended
    exitCode           \* the process' exit status

vars == <<pc, console, midLine, name, cout, cerr, srcLines, srcNL, srcLines0, srcNL0,
          questionFile, pos, questions, line, maxQuestions, questionCount,
          questionCountInt, heap, questionFileOut, outputFile, i, userChoice,
          optionsUsed, exitHow, exitCode>>

\* The locals of the sample-question loop.
quizVars == <<userChoice, optionsUsed>>

----------------------------------------------------------------------------
(* Bounds of the model. *)

\* The questions files have 0..MaxLines lines (more than maxQuestions).
MaxLines == 52
\* The console holds at most MaxConsole input lines.
MaxConsole == 2
\* The candidate names of the validator's own specification have 1..MaxNameLen
\* characters.
MaxNameLen == 2

----------------------------------------------------------------------------
(* Program constants. *)

maxQuestionsInit == 50
SCHAR_MAX == 127
QuizLoopLimit == 3
Questions1Size == 1
OptionsSize == 4
OptionLoopLimit == 4
npos == -1

\* The messages main writes.
PleaseCorrectMsg == "Please correct your input. "
TooManyMsg == "Error: Too many questions. Aborting."
TruncationMsg == "It is possible that not all the questions from the file were loaded."
AllocFailMsg == "Memory allocation failed"
InputOpenMsg == "Could not open input file"
AppendOpenMsg == "Trouble opening the file."
OutputOpenMsg == "Error: Could not open output file"
CorrectMsg == "Correct!"
IncorrectMsg == "Incorrect. The correct answer was: "
StatusLine == <<"All the data has been read from the questions file successfully.">>

----------------------------------------------------------------------------
(* NameValidator: isValidName. *)

\* std::tolower in the "C" locale (main never calls setlocale).
tolower(c) == IF c \in 65..90 THEN c + 32 ELSE c

\* string charactersToInclude = "abcdefghijklmnopqrstuvwxyz"
charactersToInclude == [k \in 1..26 |-> 96 + k]

\* std::string::find(char): the first index (from 0) holding c, else npos.
find(s, c) ==
    IF \E k \in 1..Len(s) : s[k] = c
    THEN (CHOOSE k \in 1..Len(s) : s[k] = c /\ \A j \in 1..(k - 1) : s[j] # c) - 1
    ELSE npos

\* The range-for of isValidName from the k-th character on.
RECURSIVE isValidNameFrom(_, _)
isValidNameFrom(n, k) ==
    IF k > Len(n) THEN TRUE
    ELSE LET lowercaseC == tolower(n[k])
         IN  IF find(charactersToInclude, lowercaseC) = npos
             THEN FALSE
             ELSE isValidNameFrom(n, k + 1)

\* A validator that forgets the case fold (tolower left out).
isValidNameNoFold(n) == \A k \in 1..Len(n) : find(charactersToInclude, n[k]) # npos

isValidName(n) == isValidNameFrom(n, 1)

----------------------------------------------------------------------------
(* The inputs. *)

\* Characters of candidate names: letters at both ends of both ranges, the
\* codes next to the ranges ('@', '[', '`', '{') and a digit.
NameChars == {65, 90, 97, 122, 64, 91, 96, 123, 51}

RECURSIVE StringsOfLen(_)
StringsOfLen(n) ==
    IF n = 0 THEN {<<>>}
    ELSE {Append(s, c) : s \in StringsOfLen(n - 1), c \in NameChars}

\* Every non-empty token of at most MaxNameLen characters.
NameTokens == UNION {StringsOfLen(n) : n \in 1..MaxNameLen}

\* The two tokens main's specification types: "Al" and "K3".
GoodToken == <<65, 108>>
BadToken == <<75, 51>>

RECURSIVE SeqsOfLen(_, _)
SeqsOfLen(S, n) ==
    IF n = 0 THEN {<<>>}
    ELSE {Append(s, x) : s \in SeqsOfLen(S, n - 1), x \in S}

Consoles == UNION {SeqsOfLen({GoodToken, BadToken}, n) : n \in 0..MaxConsole}

\* A questions file of n distinct lines.
FileOf(n) == [k \in 1..n |-> <<"Q", ToString(k)>>]

\* The questions files: n lines, ending in a newline or not (an empty file
\* has no last line to end).
Files == {[lines |-> FileOf(n), nl |-> b] :
            n \in 0..MaxLines, b \in BOOLEAN} \ {[lines |-> <<>>, nl |-> FALSE]}

\* What an int declared without an initializer may hold.
Indeterminate == {-1, 0, 77}

----------------------------------------------------------------------------
(* Init: main's entry, for one console input and one questions file. *)

InitWith(cons, file, bound) ==
    /\ pc = "prompt"
    /\ console = cons
    /\ midLine = FALSE
    /\ name = <<>>
    /\ cout = {}
    /\ cerr = {}
    /\ srcLines = file.lines
    /\ srcNL = file.nl
    /\ srcLines0 = file.lines
    /\ srcNL0 = file.nl
    /\ questionFile = "closed"
    /\ pos = 0
    /\ questions = <<>>
    /\ line = <<>>
    /\ maxQuestions = bound
    /\ questionCount = 0
    /\ questionCountInt = 0
    /\ heap = <<>>
    /\ questionFileOut = "closed"
    /\ outputFile = "closed"
    /\ i = 0
    /\ userChoice = -1
    /\ optionsUsed = {}
    /\ exitHow = "running"
    /\ exitCode = 0

Init == \E cons \in Consoles, file \in Files : InitWith(cons, file, maxQuestionsInit)

----------------------------------------------------------------------------
(* The name prompt loop, lines 337-352. *)

\* cin >> name: the next token, or name as it was when the input is exhausted
\* (the sentry fails and the string is not erased).
ReadName ==
    IF console # <<>>
    THEN /\ name' = Head(console)
         /\ console' = Tail(console)
         /\ midLine' = TRUE
    ELSE UNCHANGED <<name, console, midLine>>

\* The do-while's condition, line 352.
LoopAgainNever(n) == FALSE

LoopAgain(n) == ~isValidName(n)

\* One pass of the loop whose candidate is rejected: the message, and again.
PromptReject ==
    /\ UNCHANGED quizVars
    /\ pc = "prompt"
    /\ ReadName
    /\ ~isValidName(name')
    /\ cout' = cout \cup {PleaseCorrectMsg}
    /\ pc' = IF LoopAgain(name') THEN "prompt" ELSE "openIn"
    /\ UNCHANGED <<cerr, srcLines, srcNL, srcLines0, srcNL0, questionFile, pos, questions,
                   line, maxQuestions, questionCount, questionCountInt, heap,
                   questionFileOut, outputFile, i, exitHow, exitCode>>

\* One pass whose candidate is accepted: the loop is left, the greeting follows.
PromptAccept ==
    /\ UNCHANGED quizVars
    /\ pc = "prompt"
    /\ ReadName
    /\ isValidName(name')
    /\ pc' = IF LoopAgain(name') THEN "prompt" ELSE "openIn"
    /\ UNCHANGED <<cout, cerr, srcLines, srcNL, srcLines0, srcNL0, questionFile, pos,
                   questions, line, maxQuestions, questionCount, questionCountInt,
                   heap, questionFileOut, outputFile, i, exitHow, exitCode>>

NextName == PromptReject \/ PromptAccept

InitName ==
    \E cons \in {<<>>} \cup {<<t>> : t \in NameTokens} :
        InitWith(cons, [lines |-> FileOf(2), nl |-> TRUE], maxQuestionsInit)

SpecName == InitName /\ [][NextName]_vars

----------------------------------------------------------------------------
(* Opening the questions file, lines 379-409. *)

\* The open succeeds: questions, line and the counters are declared.
OpenQuestionFileOk ==
    /\ UNCHANGED quizVars
    /\ pc = "openIn"
    /\ questionFile' = "open"
    /\ pos' = 0
    /\ questions' = <<>>
    /\ line' = <<>>
    /\ questionCount' = 0
    /\ questionCountInt' \in Indeterminate
    /\ pc' = "load"
    /\ UNCHANGED <<console, midLine, name, cout, cerr, srcLines, srcNL, srcLines0, srcNL0,
                   maxQuestions, heap, questionFileOut, outputFile, i, exitHow,
                   exitCode>>

\* A main that goes on to the load loop with the stream it failed to open.
OpenQuestionFileFailIgnored ==
    /\ UNCHANGED quizVars
    /\ pc = "openIn"
    /\ questionFile' = "fail"
    /\ pc' = "load"
    /\ UNCHANGED <<console, midLine, name, cout, cerr, srcLines, srcNL, srcLines0, srcNL0,
                   pos, questions, line, maxQuestions, questionCount,
                   questionCountInt, heap, questionFileOut, outputFile, i, exitHow,
                   exitCode>>

\* The open fails: runtime_error is thrown and nothing catches it, so
\* std::terminate ends the process by abort() (the shell's status 134, SIGABRT);
\* the runtime's terminate handler writes what() to stderr.
OpenQuestionFileFail ==
    /\ UNCHANGED quizVars
    /\ pc = "openIn"
    /\ questionFile' = "fail"
    /\ cerr' = cerr \cup {InputOpenMsg}
    /\ pc' = "exit"
    /\ exitHow' = "terminate"
    /\ exitCode' = 134
    /\ UNCHANGED <<console, midLine, name, cout, srcLines, srcNL, srcLines0, srcNL0, pos,
                   questions, line, maxQuestions, questionCount, questionCountInt,
                   heap, questionFileOut, outputFile, i>>

----------------------------------------------------------------------------
(* QuestionLoader: the load loop, lines 413-455. *)

\* Question(string q) : question(q), answer(false)
Question(q) == [question |-> q, answer |-> FALSE]

\* A push that puts the new element first.
push_front(v, q) == <<q>> \o v

\* vector::push_back
push_back(v, q) == Append(v, q)

\* numeric_limits<unsigned int>::max() is 2^32 - 1, written in 16-bit halves.
AtUIntMax(c) == (c \div (2 ^ 16)) >= 2 ^ 16 - 1 /\ (c % (2 ^ 16)) = 2 ^ 16 - 1

\* a < b on the two ints' values converted to unsigned int: a negative int
\* converts to 2^32 + a, above every non-negative one.
UnsignedLess(a, b) ==
    CASE a >= 0 /\ b >= 0 -> a < b
      [] a >= 0 /\ b < 0  -> TRUE
      [] a < 0 /\ b >= 0  -> FALSE
      [] OTHER            -> a < b

\* Line 425-428: the signed copy is refreshed only while the count is at most
\* SCHAR_MAX; above it the copy keeps the value it had.
SignedCopy(count, copy) == IF count <= SCHAR_MAX THEN count ELSE copy

\* A bound check that lets one question too many in.
UnderBoundOffByOne(copy, bound) == UnsignedLess(copy, bound + 1)

\* Line 432: static_cast<unsigned>(questionCountInt) < static_cast<unsigned>(maxQuestions)
UnderBound(copy, bound) == UnsignedLess(copy, bound)

\* getline(questionFile, line) succeeds: the stream is good and a line is left.
GetlineOk == questionFile = "open" /\ pos < Len(srcLines)

\* A body whose comparison with maxQuestions is missing.
BodyOutcomeUnbounded == IF AtUIntMax(questionCount) THEN "overflow" ELSE "append"

\* What the loop's body does with the line just read.
BodyOutcome ==
    IF AtUIntMax(questionCount) THEN "overflow"
    ELSE IF UnderBound(SignedCopy(questionCount, questionCountInt), maxQuestions)
         THEN "append"
         ELSE "truncate"

\* The parts of a pass that reads a line and appends it (lines 413-436).
AppendLine ==
    /\ pc = "load"
    /\ GetlineOk
    /\ BodyOutcome = "append"
    /\ pos' = pos + 1
    /\ line' = srcLines[pos + 1]
    /\ questionCountInt' = SignedCopy(questionCount, questionCountInt)
    /\ questions' = push_back(questions, Question(line'))
    /\ questionCount' = questionCount + 1

\* A pass that appends the line; new(nothrow) then yields a second Question,
\* which no one stores or deletes (lines 442-449).
LoadAppend ==
    /\ UNCHANGED quizVars
    /\ AppendLine
    /\ heap' = Append(heap, Question(line'))
    /\ pc' = "load"
    /\ UNCHANGED <<console, midLine, name, cout, cerr, srcLines, srcNL, srcLines0, srcNL0,
                   questionFile, maxQuestions, questionFileOut, outputFile, i,
                   exitHow, exitCode>>

\* A pass that appends the line; new(nothrow) then yields a null pointer:
\* the message and return 1.
LoadAllocFail ==
    /\ UNCHANGED quizVars
    /\ AppendLine
    /\ cerr' = cerr \cup {AllocFailMsg}
    /\ pc' = "exit"
    /\ exitHow' = "return"
    /\ exitCode' = 1
    /\ UNCHANGED <<console, midLine, name, cout, srcLines, srcNL, srcLines0, srcNL0,
                   questionFile, maxQuestions, heap, questionFileOut, outputFile,
                   i>>

\* A pass that reads a line and breaks: the bound is reached (line 439), or the
\* count stands at the unsigned ceiling (line 419).
LoadStop ==
    /\ UNCHANGED quizVars
    /\ pc = "load"
    /\ GetlineOk
    /\ BodyOutcome # "append"
    /\ pos' = pos + 1
    /\ line' = srcLines[pos + 1]
    /\ questionCountInt' = IF BodyOutcome = "overflow" THEN questionCountInt
                           ELSE SignedCopy(questionCount, questionCountInt)
    /\ cout' = cout \cup {IF BodyOutcome = "overflow" THEN TooManyMsg ELSE TruncationMsg}
    /\ pc' = "openApp"
    /\ UNCHANGED <<console, midLine, name, cerr, srcLines, srcNL, srcLines0, srcNL0,
                   questionFile, questions, maxQuestions, questionCount, heap,
                   questionFileOut, outputFile, i, exitHow, exitCode>>

\* getline fails (no line is left, or the stream is not good): the loop ends.
\* getline erases line when its sentry succeeds, which it does unless the stream
\* is not open or the last line read ended at the end of the file (eofbit set).
LoadEof ==
    /\ UNCHANGED quizVars
    /\ pc = "load"
    /\ ~GetlineOk
    /\ line' = IF questionFile = "open" /\ (srcNL \/ pos = 0) THEN <<>> ELSE line
    /\ pc' = "openApp"
    /\ UNCHANGED <<console, midLine, name, cout, cerr, srcLines, srcNL, srcLines0, srcNL0,
                   questionFile, pos, questions, maxQuestions, questionCount,
                   questionCountInt, heap, questionFileOut, outputFile, i, exitHow,
                   exitCode>>

NextLoad ==
    \/ OpenQuestionFileOk
    \/ OpenQuestionFileFail
    \/ LoadAppend
    \/ LoadAllocFail
    \/ LoadStop
    \/ LoadEof

----------------------------------------------------------------------------
(* The status line, lines 459-469. *)

\* An ofstream opened without ios::app: the text replaces the file's content.
TruncatingWrite(lines, nl, text) == <<text>>

\* An ofstream opened with ios::app writing text and endl: the text goes to
\* the end of the file, as a new line when the file is empty or ends in a
\* newline, else onto its last line.
AppendWrite(lines, nl, text) ==
    IF nl \/ lines = <<>>
    THEN Append(lines, text)
    ELSE [lines EXCEPT ![Len(lines)] = @ \o text]

\* questionFile.clear(); questionFile.seekg(0); triviaquestions.txt opens for
\* appending.
OpenAppendOk ==
    /\ UNCHANGED quizVars
    /\ pc = "openApp"
    /\ pos' = 0
    /\ questionFileOut' = "open"
    /\ pc' = "status"
    /\ UNCHANGED <<console, midLine, name, cout, cerr, srcLines, srcNL, srcLines0, srcNL0,
                   questionFile, questions, line, maxQuestions, questionCount,
                   questionCountInt, heap, outputFile, i, exitHow, exitCode>>

\* The open for appending fails: the message and return 1.
OpenAppendFail ==
    /\ UNCHANGED quizVars
    /\ pc = "openApp"
    /\ pos' = 0
    /\ questionFileOut' = "fail"
    /\ cerr' = cerr \cup {AppendOpenMsg}
    /\ pc' = "exit"
    /\ exitHow' = "return"
    /\ exitCode' = 1
    /\ UNCHANGED <<console, midLine, name, cout, srcLines, srcNL, srcLines0, srcNL0,
                   questionFile, questions, line, maxQuestions, questionCount,
                   questionCountInt, heap, outputFile, i>>

\* questionFileOut << "All the data has been read ..." << endl
WriteStatus ==
    /\ UNCHANGED quizVars
    /\ pc = "status"
    /\ srcLines' = AppendWrite(srcLines, srcNL, StatusLine)
    /\ srcNL' = TRUE
    /\ pc' = "openOut"
    /\ UNCHANGED <<console, midLine, name, cout, cerr, srcLines0, srcNL0, questionFile, pos,
                   questions, line, maxQuestions, questionCount, questionCountInt,
                   heap, questionFileOut, outputFile, i, exitHow, exitCode>>

----------------------------------------------------------------------------
(* The output file, lines 474-533. *)

\* fopen("output.txt", "w") succeeds; the try block calls isValidName twice
\* and changes nothing.
OpenOutputOk ==
    /\ UNCHANGED quizVars
    /\ pc = "openOut"
    /\ outputFile' = "open"
    /\ i' = 0
    /\ pc' = "quiz"
    /\ UNCHANGED <<console, midLine, name, cout, cerr, srcLines, srcNL, srcLines0, srcNL0,
                   questionFile, pos, questions, line, maxQuestions, questionCount,
                   questionCountInt, heap, questionFileOut, exitHow, exitCode>>

\* fopen yields a null pointer: the message, goto cleanup, return 0.
OpenOutputFail ==
    /\ UNCHANGED quizVars
    /\ pc = "openOut"
    /\ outputFile' = "fail"
    /\ cerr' = cerr \cup {OutputOpenMsg}
    /\ pc' = "exit"
    /\ exitHow' = "return"
    /\ exitCode' = 0
    /\ UNCHANGED <<console, midLine, name, cout, srcLines, srcNL, srcLines0, srcNL0,
                   questionFile, pos, questions, line, maxQuestions, questionCount,
                   questionCountInt, heap, questionFileOut, i>>

----------------------------------------------------------------------------
(* The sample-question loop, lines 536-578. *)

\* Question1 questions1[1], with its one element (lines 536-543); indexed
\* from 0.
questions1 ==
    [k \in 0..(Questions1Size - 1) |->
        [question |-> "What is the capital of France?", correctOption |-> 2]]

\* The line cin.getline reads: the rest of the current input line, or the
\* empty string when the input is exhausted.
AnswerRead ==
    IF midLine THEN <<>>
    ELSE IF console # <<>> THEN Head(console) ELSE <<>>

\* getAnswer: cin.getline reads the rest of the current input line.
GetAnswer ==
    IF midLine
    THEN /\ midLine' = FALSE
         /\ UNCHANGED console
    ELSE IF console # <<>>
         THEN /\ console' = Tail(console)
              /\ UNCHANGED midLine
         ELSE UNCHANGED <<console, midLine>>

\* Lines 557-562: userAnswer[0] - 'a', or -1 for the empty answer.
ChoiceOf(answer) == IF Len(answer) > 0 THEN answer[1] - 97 ELSE -1

\* The inner loop, lines 549-552: options[j] for j = 0 .. 3.
OptionsShown == 0..(OptionLoopLimit - 1)

\* The rest of a pass (lines 554-575) for the correctOption it read: the
\* answer, the verdict, and options[correctOption] in the verdict "Incorrect".
PassWith(correctOption) ==
    /\ GetAnswer
    /\ userChoice' = ChoiceOf(AnswerRead)
    /\ IF userChoice' = correctOption
       THEN /\ cout' = cout \cup {CorrectMsg}
            /\ optionsUsed' = OptionsShown
       ELSE /\ cout' = cout \cup {IncorrectMsg}
            /\ optionsUsed' = OptionsShown \cup {correctOption}
    /\ i' = i + 1

\* A pass over an element of questions1.
QuizPass ==
    /\ pc = "quiz"
    /\ i < QuizLoopLimit
    /\ i < Questions1Size
    /\ PassWith(questions1[i].correctOption)
    /\ UNCHANGED <<pc, name, cerr, srcLines, srcNL, srcLines0, srcNL0, questionFile,
                   pos, questions, line, maxQuestions, questionCount,
                   questionCountInt, heap, questionFileOut, outputFile, exitHow,
                   exitCode>>

\* A pass whose index is past the end of questions1: the reads are undefined;
\* the pass may go through on whatever the memory past the array holds as
\* correctOption.
QuizPassPastEnd ==
    /\ pc = "quiz"
    /\ i < QuizLoopLimit
    /\ i >= Questions1Size
    /\ \E correctOption \in Indeterminate : PassWith(correctOption)
    /\ UNCHANGED <<pc, name, cerr, srcLines, srcNL, srcLines0, srcNL0, questionFile,
                   pos, questions, line, maxQuestions, questionCount,
                   questionCountInt, heap, questionFileOut, outputFile, exitHow,
                   exitCode>>

\* A pass whose index is past the end of questions1: the reads are undefined;
\* the process may be killed by a memory fault (the shell's status 139, SIGSEGV).
QuizFault ==
    /\ UNCHANGED quizVars
    /\ pc = "quiz"
    /\ i < QuizLoopLimit
    /\ i >= Questions1Size
    /\ pc' = "exit"
    /\ exitHow' = "signal"
    /\ exitCode' = 139
    /\ UNCHANGED <<console, midLine, name, cout, cerr, srcLines, srcNL, srcLines0, srcNL0,
                   questionFile, pos, questions, line, maxQuestions, questionCount,
                   questionCountInt, heap, questionFileOut, outputFile, i>>

\* checkOutFile(outputFile): nothing was written to outputFile, so ferror is
\* false; fclose and exit(0).
CheckOutFile ==
    /\ UNCHANGED quizVars
    /\ pc = "quiz"
    /\ i >= QuizLoopLimit
    /\ outputFile' = "closed"
    /\ pc' = "exit"
    /\ exitHow' = "exit"
    /\ exitCode' = 0
    /\ UNCHANGED <<console, midLine, name, cout, cerr, srcLines, srcNL, srcLines0, srcNL0,
                   questionFile, pos, questions, line, maxQuestions, questionCount,
                   questionCountInt, heap, questionFileOut, i>>

----------------------------------------------------------------------------
(* main. *)

Next ==
    \/ PromptReject
    \/ PromptAccept
    \/ OpenQuestionFileOk
    \/ OpenQuestionFileFail
    \/ LoadAppend
    \/ LoadAllocFail
    \/ LoadStop
    \/ LoadEof
    \/ OpenAppendOk
    \/ OpenAppendFail
    \/ WriteStatus
    \/ OpenOutputOk
    \/ OpenOutputFail
    \/ QuizPass
    \/ QuizPassPastEnd
    \/ QuizFault
    \/ CheckOutFile

Spec == Init /\ [][Next]_vars

----------------------------------------------------------------------------
(* The load loop for other bounds than main's: maxQuestions is drawn from  *)
(* bounds on both sides of SCHAR_MAX, the console is empty (the name loop  *)
(* ends at once with the empty name) and the file has few lines or about   *)
(* SCHAR_MAX.                                                              *)

BoundValues ==
    {1, 2, maxQuestionsInit, SCHAR_MAX, SCHAR_MAX + 1, SCHAR_MAX + 2, SCHAR_MAX + 3}

BoundLineCounts == (0..3) \cup ((SCHAR_MAX - 1)..(SCHAR_MAX + 5))

InitBound ==
    \E n \in BoundLineCounts, bound \in BoundValues :
        InitWith(<<>>, [lines |-> FileOf(n), nl |-> TRUE], bound)

NextBound == PromptAccept \/ NextLoad

SpecBound == InitBound /\ [][NextBound]_vars

----------------------------------------------------------------------------
(* Properties. *)

\* The positions of main after the load loop has ended.
AfterLoad == {"openApp", "status", "openOut", "quiz"}

\* The status line has been written.
StatusWritten == questionFileOut = "open" /\ pc # "status"

Letters == (65..90) \cup (97..122)

Range(s) == {s[k] : k \in 1..Len(s)}

\* C1: when the load loop has ended, a source of n <= maxQuestions lines gave
\* a sequence of n questions and no truncation message; a source of more
\* lines gave exactly maxQuestions questions and the truncation message.
C1_LoadResult ==
    pc \in AfterLoad =>
        IF Len(srcLines0) <= maxQuestions
        THEN Len(questions) = Len(srcLines0) /\ TruncationMsg \notin cout
        ELSE Len(questions) = maxQuestions /\ TruncationMsg \in cout

C1_Witness ==
    /\ pc = "openApp"
    /\ Len(srcLines0) > maxQuestions
    /\ Len(questions) = maxQuestions
    /\ TruncationMsg \in cout

\* C2: the sequence never holds more than maxQuestions questions, and once
\* it holds maxQuestions no step appends: a step that reads a further line
\* leaves the loop with the truncation message.
C2_BoundKept ==
    /\ [](Len(questions) <= maxQuestions)
    /\ [][(pc = "load" /\ Len(questions) = maxQuestions)
            => /\ questions' = questions
               /\ (pos' # pos => pc' = "openApp" /\ TruncationMsg \in cout')]_vars

C2_Witness ==
    /\ pc = "load"
    /\ Len(questions) = maxQuestions
    /\ pos < Len(srcLines)

\* C3: the sequence is a prefix of the source in file order: its k-th
\* question holds the source's k-th line.
C3_PrefixOfSource ==
    /\ Len(questions) <= Len(srcLines0)
    /\ \A k \in 1..Len(questions) : questions[k].question = srcLines0[k]

C3_Witness ==
    /\ pc = "openApp"
    /\ Len(questions) >= 3
    /\ Len(questions) < Len(srcLines0)

\* C4: isValidName yields a boolean, TRUE exactly for the strings whose
\* characters are all among the 52 letters (so for the empty string too).
C4_LettersOnly ==
    \A s \in {name} \cup Range(console) :
        /\ isValidName(s) \in BOOLEAN
        /\ isValidName(s) = (\A k \in 1..Len(s) : s[k] \in Letters)

C4_Witness ==
    /\ pc = "openIn"
    /\ name = <<65, 122>>
    /\ PleaseCorrectMsg \notin cout

\* C5: past the prompt loop the stored name is one isValidName accepts, and
\* a pass that rejects its candidate stays in the loop with the process
\* running.
C5_ValidNameLeavesLoop ==
    /\ [](pc # "prompt" => isValidName(name))
    /\ [][(pc = "prompt" /\ ~isValidName(name'))
            => (pc' = "prompt" /\ exitHow' = "running")]_vars

C5_Witness ==
    /\ pc = "openIn"
    /\ name = GoodToken
    /\ PleaseCorrectMsg \in cout

\* C6: a process that ended after one of its files failed to open reported the
\* failure and ended with a status other than 0.
C6_OpenFailureExitsNonZero ==
    (pc = "exit" /\ "fail" \in {questionFile, questionFileOut, outputFile})
        => (exitCode # 0 /\ cerr # {})

\* C7: when the questions file failed to open, the process has ended with a
\* status other than 0, no line was read and the sequence is empty.
C7_NoLoadAfterOpenFailure ==
    questionFile = "fail" =>
        /\ pc = "exit"
        /\ exitCode # 0
        /\ pos = 0
        /\ line = <<>>
        /\ questions = <<>>
        /\ questionCount = 0

C7_Witness ==
    /\ questionFile = "fail"
    /\ pc = "exit"
    /\ exitHow = "terminate"

C10_NoQuestionOutsideSequence == pc = "exit" => heap = <<>>

\* C11: every pass of the sample-question loop uses an index i below the
\* number of elements of questions1, and only indices 0..3 for options[...].
C11_IndicesInBounds ==
    [][(pc = "quiz" /\ i < QuizLoopLimit)
         => /\ i < Questions1Size
            /\ optionsUsed' \subseteq 0..(OptionsSize - 1)]_vars

Min(a, b) == IF a <= b THEN a ELSE b

\* C12: the program terminates on every finite input: while the process
\* runs it has a step to another state (it is never left with nothing but
\* the repetition of the state it is in), the load loop has read at most
\* min(n, maxQuestions + 1) lines, and the sample-question loop's index stays
\* within its limit.
C12_Terminates ==
    /\ pc # "exit" => ENABLED <<Next>>_vars
    /\ pc \in {"load", "openApp"} => pos <= Min(Len(srcLines0), maxQuestions + 1)
    /\ i <= QuizLoopLimit

====
